---- MODULE Spec2Model ----
(***************************************************************************)
(* A model of peyote/utils.py (sampling_frequency, ra_dec_to_theta_phi,    *)
(* gps_time_to_gmst, create_white_noise) together with the process-wide    *)
(* numpy generator those functions share, as seeded by                     *)
(* examples/injection_examples/eccentric_inspiral.py.                      *)
(*                                                                         *)
(* Numbers.  Python floats are modelled by exact rationals <<num, den>>    *)
(* in lowest terms with den > 0; floating-point rounding is not modelled.  *)
(* Scalar arguments are plain Python numbers, as the example script       *)
(* passes them; a time series is a numpy array.                            *)
(* Two runs of the program (Runs) are modelled side by side: they are      *)
(* seeded alike and make the same create_white_noise calls, while only     *)
(* run 1 interleaves the three functions that use no randomness.           *)
(***************************************************************************)
EXTENDS Integers, Sequences, FiniteSets

VARIABLES rng, seeded, calls, k, out, ret

vars == <<rng, seeded, calls, k, out, ret>>

\* ------------------------------------------------------------------ bounds

\* create_white_noise calls made in one behaviour.
MaxCalls == 2
\* create_white_noise calls made in one behaviour of SpecNoise.
MaxNoiseCalls == 2
\* Longest time series handed to sampling_frequency.
MaxLen == 3

\* The example script's seed and the number of interferometers it simulates.
RandomSeed == 150914
NumInterferometers == 3

Runs == {1, 2}

\* -------------------------------------------------------------- arithmetic

Abs(x) == IF x < 0 THEN -x ELSE x

RECURSIVE GCD(_, _)
GCD(a, b) == IF b = 0 THEN a ELSE GCD(b, a % b)

\* The rational n/d (d # 0) in lowest terms with a positive denominator.
Rat(n, d) ==
    LET s == IF d < 0 THEN -1 ELSE 1
        g == GCD(Abs(n), Abs(d))
    IN  <<(s * n) \div g, (s * d) \div g>>

RInt(i) == <<i, 1>>
RZero == <<0, 1>>
RMul(a, b) == Rat(a[1] * b[1], a[2] * b[2])
RSub(a, b) == Rat(a[1] * b[2] - b[1] * a[2], a[2] * b[2])
RAdd(a, b) == Rat(a[1] * b[2] + b[1] * a[2], a[2] * b[2])
\* 1. / a, for a # 0
RInv(a) == Rat(a[2], a[1])
RLt(a, b) == a[1] * b[2] < b[1] * a[2]

\* int(np.round(x)): the nearest integer, a tie going to the even one.
Round(x) ==
    LET fl  == x[1] \div x[2]
        rem == x[1] - fl * x[2]
    IN  IF 2 * rem < x[2] THEN fl
        ELSE IF 2 * rem > x[2] THEN fl + 1
        ELSE IF fl % 2 = 0 THEN fl ELSE fl + 1

\* ------------------------------------------------------- the shared generator

\* The generator's state: the key np.random.seed set (or the entropy it started
\* from) and the number of normal variates drawn since.
Entropy == {-1, -2}
Seeds == {RandomSeed, 7}

\* Variant: the seed does not reach the generator the noise is drawn from.
SeedIgnored(g, s) == g
\* np.random.seed(s) on a generator in state g: the state depends on s alone.
np_random_seed(g, s) == [key |-> s, pos |-> 0]

\* The i-th standard normal variate of the stream that starts at key.
Gauss(key, i) ==
    ((((key % 89) + 2) * ((i % 97) * (i % 97) + 1) + 3 * (i % 1009)) % 11) - 5

\* np.random.normal(0, norm1, size) from generator state g: the next size
\* variates of the stream.  norm1 = 0.5 * (1./delta_freq)**0.5 is irrational in
\* general, so a noise value is kept in units of norm1 (the variate v stands
\* for norm1 * v) and norm1 is kept beside the array by its square.
Normal(g, size) == [i \in 1..size |-> Gauss(g.key, g.pos + i)]

Advance(g, size) == [g EXCEPT !.pos = @ + size]

\* ---------------------------------------------------------- create_white_noise

\* re + 1j*im, in units of norm1
Complex(re, im) == <<re, im>>
\* The integer 0 of np.concatenate(([0], ...)) once cast to the array's type.
CZero == Complex(0, 0)

number_of_samples(fs, duration) == Round(RMul(duration, fs))

\* Variant: number_of_samples // 2
NumberOfFrequenciesHalf(n) == n \div 2
number_of_frequencies(n) == (n - 1) \div 2

\* delta_freq * np.linspace(1, number_of_frequencies, number_of_frequencies)
\* Variant: the axis starts at 0 instead of delta_freq.
FreqAxisFromZero(delta_freq, nf) == [i \in 1..nf |-> RMul(delta_freq, RInt(i - 1))]
FreqAxis(delta_freq, nf) == [i \in 1..nf |-> RMul(delta_freq, RInt(i))]

\* (0.5 * (1./delta_freq)**0.5) squared
Norm1Sq(delta_freq) == RMul(<<1, 4>>, RInv(delta_freq))

\* re1, im1 and z1 = re1 + 1j*im1: all real parts are drawn first, then all
\* imaginary parts.
\* Variant: real and imaginary parts drawn alternately.
DrawsInterleaved(g, nf) ==
    LET all == Normal(g, 2 * nf)
    IN  [i \in 1..nf |-> Complex(all[2 * i - 1], all[2 * i])]
Draws(g, nf) ==
    LET re1 == Normal(g, nf)
        im1 == Normal(Advance(g, nf), nf)
    IN  [i \in 1..nf |-> Complex(re1[i], im1[i])]

\* The DC and Nyquist elements: the parity branch of create_white_noise.
\* Variants: the branch taken whatever the parity, and a Nyquist frequency
\* continued from the axis instead of sampling_frequency / 2.
BoundaryAlwaysNyquist(n, otilde1, freq, fs) ==
    [white_noise |-> <<CZero>> \o otilde1 \o <<CZero>>,
     f |-> <<RZero>> \o freq \o <<RMul(fs, <<1, 2>>)>>]
BoundaryNeverNyquist(n, otilde1, freq, fs) ==
    [white_noise |-> <<CZero>> \o otilde1, f |-> <<RZero>> \o freq]
BoundaryNyquistFromAxis(n, otilde1, freq, fs) ==
    IF n % 2 = 0
    THEN [white_noise |-> <<CZero>> \o otilde1 \o <<CZero>>,
          f |-> <<RZero>> \o freq
                \o <<IF Len(freq) = 0 THEN RMul(fs, <<1, 2>>)
                     ELSE RMul(freq[1], RInt(Len(freq) + 1))>>]
    ELSE [white_noise |-> <<CZero>> \o otilde1, f |-> <<RZero>> \o freq]
Boundary(n, otilde1, freq, fs) ==
    IF n % 2 = 0
    THEN [white_noise |-> <<CZero>> \o otilde1 \o <<CZero>>,
          f |-> <<RZero>> \o freq \o <<RMul(fs, <<1, 2>>)>>]
    ELSE [white_noise |-> <<CZero>> \o otilde1, f |-> <<RZero>> \o freq]

Raised(fs, duration, g, error) ==
    [status |-> "raise", error |-> error, fs |-> fs, duration |-> duration,
     before |-> g, after |-> g, norm1sq |-> RZero, white_noise |-> <<>>, f |-> <<>>]

\* The error, if any, that ends create_white_noise(fs, duration) before it
\* returns: 1./0 (ZeroDivisionError), np.linspace with a negative count
\* (ValueError), np.random.normal with the complex scale that a negative
\* 1./delta_freq raised to 0.5 gives (TypeError).  "" when it returns.
\* Variant: an explicit check of the arguments, and no other failure.
ErrorIfNotPositive(fs, duration) ==
    IF duration[1] <= 0 \/ fs[1] <= 0 THEN "ValueError" ELSE ""
ErrorOf(fs, duration) ==
    IF duration[1] = 0 THEN "ZeroDivisionError"
    ELSE IF number_of_frequencies(number_of_samples(fs, duration)) < 0
         THEN "ValueError"
    ELSE IF duration[1] < 0 THEN "TypeError"
    ELSE ""

\* create_white_noise(sampling_frequency, duration) called with the generator
\* in state g: what it returns or raises, and the generator's state after.
create_white_noise(fs, duration, g) ==
    IF ErrorOf(fs, duration) # "" THEN Raised(fs, duration, g, ErrorOf(fs, duration))
    ELSE
    LET n          == number_of_samples(fs, duration)
        nf         == number_of_frequencies(n)
        delta_freq == RInv(duration)
        freq       == FreqAxis(delta_freq, nf)
        z1         == Draws(g, nf)
        otilde1    == z1
        b          == Boundary(n, otilde1, freq, fs)
    IN  [status |-> "ok", error |-> "", fs |-> fs, duration |-> duration,
         before |-> g, after |-> Advance(g, 2 * nf),
         norm1sq |-> Norm1Sq(delta_freq),
         white_noise |-> b.white_noise, f |-> b.f]

NoCall == [Raised(RZero, RZero, [key |-> 0, pos |-> 0], "") EXCEPT !.status = "none"]

\* ------------------------------------------------------------ sampling_frequency

\* Times are whole numbers of ticks of 1e-11 s, so that tol = 1e-10 s is Tol
\* ticks; a frequency is a rational number of cycles per tick.
Tol == 10

\* np.diff(time_series)
Diff(time_series) ==
    [i \in 1..(Len(time_series) - 1) |-> time_series[i + 1] - time_series[i]]

Max(S) == CHOOSE x \in S : \A y \in S : y <= x
Min(S) == CHOOSE x \in S : \A y \in S : x <= y
Range(d) == {d[i] : i \in 1..Len(d)}
\* np.ptp(d), for a d that is not empty
Ptp(d) == Max(Range(d)) - Min(Range(d))

\* 1. / x for a numpy float x: inf (with a warning) when x is 0
Inf == <<1, 0>>
Reciprocal(x) == IF x = 0 THEN Inf ELSE Rat(1, x)

\* Variant: a range equal to tol is rejected too.
SamplingFrequencyStrict(time_series) ==
    IF Len(time_series) < 2
    THEN [status |-> "raise", value |-> "ValueError"]
    ELSE IF Ptp(Diff(time_series)) >= Tol
    THEN [status |-> "raise", value |-> "ValueError"]
    ELSE [status |-> "ok", value |-> Reciprocal(time_series[2] - time_series[1])]
\* sampling_frequency(time_series), time_series a numpy array.  np.ptp of the
\* empty array np.diff gives for fewer than two samples raises ValueError.
sampling_frequency(time_series) ==
    IF Len(time_series) < 2
    THEN [status |-> "raise", value |-> "ValueError"]
    ELSE IF Ptp(Diff(time_series)) > Tol
    THEN [status |-> "raise", value |-> "ValueError"]
    ELSE [status |-> "ok", value |-> Reciprocal(time_series[2] - time_series[1])]

\* ----------------------------------------------------------- ra_dec_to_theta_phi

\* An angle rat + pi * np.pi, both coefficients rational.
Real(rat, pi) == [rat |-> rat, pi |-> pi]
Minus(x, y) == Real(RSub(x.rat, y.rat), RSub(x.pi, y.pi))
HalfPi == Real(RZero, <<1, 2>>)

\* Variant: phi = gmst - ra
RaDecMinusRa(ra, dec, gmst) == <<Minus(HalfPi, dec), Minus(gmst, ra)>>
\* ra_dec_to_theta_phi(ra, dec, gmst): the pair (theta, phi)
ra_dec_to_theta_phi(ra, dec, gmst) ==
    LET phi   == Minus(ra, gmst)
        theta == Minus(HalfPi, dec)
    IN  <<theta, phi>>

\* -------------------------------------------------------------- gps_time_to_gmst

\* Time(time, format='gps').sidereal_time('mean', 'greenwich').value, in hours:
\* the sidereal clock turns once in a sidereal day of SiderealDay seconds.
SiderealDay == 86164
SiderealHours(time) == Rat((time % SiderealDay) * 24, SiderealDay)

\* gps_time_to_gmst(time) = hours * np.pi / 12
gps_time_to_gmst(time) == Real(RZero, RMul(SiderealHours(time), <<1, 12>>))

\* ------------------------------------------------------------------ actions

\* ret: the last call made (in run 1) and, for a function that draws nothing,
\* what it returned.
NoRet == [op |-> "", args |-> <<>>, status |-> "", value |-> <<>>]

Init ==
    /\ rng \in [Runs -> {[key |-> e, pos |-> 0] : e \in Entropy}]
    /\ seeded = FALSE
    /\ calls = 0
    /\ k = 0
    /\ out = [r \in Runs |-> NoCall]
    /\ ret = NoRet

\* np.random.seed(s), in each run of R
Seed(R, s) ==
    /\ rng' = [r \in Runs |-> IF r \in R THEN np_random_seed(rng[r], s) ELSE rng[r]]
    /\ seeded' = TRUE
    /\ k' = 0
    /\ ret' = [op |-> "np.random.seed", args |-> <<s>>, status |-> "ok", value |-> <<>>]
    /\ UNCHANGED <<calls, out>>

\* create_white_noise(fs, duration), in each run of R
Call(R, fs, duration, max) ==
    /\ calls < max
    /\ calls' = calls + 1
    /\ k' = k + 1
    /\ out' = [r \in Runs |->
                 IF r \in R THEN create_white_noise(fs, duration, rng[r]) ELSE out[r]]
    /\ rng' = [r \in Runs |-> IF r \in R THEN out'[r].after ELSE rng[r]]
    /\ ret' = [op |-> "create_white_noise", args |-> <<fs, duration>>,
               status |-> out'[1].status, value |-> <<>>]
    /\ UNCHANGED seeded

\* The three functions that draw nothing, called in run 1.
CallSamplingFrequency(time_series) ==
    /\ ret' = [op |-> "sampling_frequency", args |-> <<time_series>>,
               status |-> sampling_frequency(time_series).status,
               value |-> sampling_frequency(time_series).value]
    /\ UNCHANGED <<rng, seeded, calls, k, out>>

CallRaDecToThetaPhi(ra, dec, gmst) ==
    /\ ret' = [op |-> "ra_dec_to_theta_phi", args |-> <<ra, dec, gmst>>,
               status |-> "ok", value |-> ra_dec_to_theta_phi(ra, dec, gmst)]
    /\ UNCHANGED <<rng, seeded, calls, k, out>>

CallGpsTimeToGmst(time) ==
    /\ ret' = [op |-> "gps_time_to_gmst", args |-> <<time>>,
               status |-> "ok", value |-> gps_time_to_gmst(time)]
    /\ UNCHANGED <<rng, seeded, calls, k, out>>

\* ----------------------------------------------------------- specifications

\* Arguments of create_white_noise: negative, zero, fractional and whole.
SmallRates == {RInt(-5), RInt(0), RInt(3), RInt(5), RInt(7)}
SmallDurations == {RInt(-1), RInt(0), <<1, 8>>, <<1, 2>>, RInt(1), <<7, 4>>}
FewArguments ==
    {<<RInt(5), RInt(1)>>, <<RInt(3), <<3, 2>>>>, <<RInt(1), <<1, 2>>>>,
     <<RInt(0), RInt(1)>>, <<RInt(-5), RInt(-1)>>, <<RInt(5), <<3, 2>>>>}
FewSeries == {<<7>>, <<0, 7>>, <<0, 7, 24>>, <<0, 7, 31>>}
FewAngles == {Real(RZero, RZero), Real(RInt(45), RZero), Real(<<573, 100>>, <<1, 2>>)}
GpsTimes == {0, 1180002601}

\* The whole program: two runs seeded and called alike, run 1 also calling the
\* functions that draw nothing.
Next ==
    \/ \E s \in Seeds : Seed(Runs, s)
    \/ \E a \in FewArguments : Call(Runs, a[1], a[2], MaxCalls)
    \/ \E time_series \in FewSeries : CallSamplingFrequency(time_series)
    \/ \E ra \in FewAngles, gmst \in FewAngles :
          CallRaDecToThetaPhi(ra, Real(<<573, 100>>, RZero), gmst)
    \/ \E time \in GpsTimes : CallGpsTimeToGmst(time)

Spec == Init /\ [][Next]_vars

\* create_white_noise alone (run 1), over a wider range of arguments.
NoiseArguments == (SmallRates \X SmallDurations) \cup {<<RInt(5), RInt(2)>>}

NextNoise ==
    \/ \E s \in Seeds : Seed({1}, s)
    \/ \E a \in NoiseArguments : Call({1}, a[1], a[2], MaxNoiseCalls)

SpecNoise == Init /\ [][NextNoise]_vars

\* The example script (run 1): it seeds the generator, then synthesises noise
\* once per interferometer.  Its own arguments are 256 Hz and 64 s; the others
\* are variations of them.
ExampleArguments ==
    {<<RInt(256), RInt(64)>>, <<RInt(255), RInt(64)>>, <<RInt(5), RInt(2)>>,
     <<RInt(3), <<3, 2>>>>, <<RInt(3), <<1, 2>>>>, <<RInt(1), <<1, 2>>>>,
     <<RInt(1), <<1, 4>>>>, <<RInt(3), RInt(1)>>}

ExampleSeed ==
    /\ ~seeded
    /\ Seed({1}, RandomSeed)

ExampleNoise ==
    /\ seeded
    /\ \E a \in ExampleArguments : Call({1}, a[1], a[2], NumInterferometers)

NextExample == ExampleSeed \/ ExampleNoise

SpecExample == Init /\ [][NextExample]_vars

\* The functions that draw nothing, over a wider range of arguments.
Ticks == {0, 7, 14, 24}
SeriesOfLen(n) == [1..n -> Ticks]
Series == UNION {SeriesOfLen(n) : n \in 0..MaxLen}
Angles ==
    {Real(RZero, RZero), Real(RInt(45), RZero), Real(<<573, 100>>, RZero),
     Real(RZero, <<1, 2>>), Real(RInt(-1), <<-1, 4>>)}

NextPure ==
    \/ \E time_series \in Series : CallSamplingFrequency(time_series)
    \/ \E ra \in Angles, dec \in Angles, gmst \in Angles :
          CallRaDecToThetaPhi(ra, dec, gmst)
    \/ \E time \in GpsTimes : CallGpsTimeToGmst(time)

SpecPure == Init /\ [][NextPure]_vars
\* ------------------------------------------------------------------- claims

\* The last create_white_noise call of run 1, and the quantities the claims
\* name, written from the claims' own words.
o == out[1]
Called == o.status # "none"
Positive(x) == x[1] > 0
SamplesOf(c) == Round(RMul(c.duration, c.fs))
FrequenciesOf(c) == (SamplesOf(c) - 1) \div 2
DeltaOf(c) == RInv(c.duration)
Last(q) == q[Len(q)]
Is(c, fs, duration) == c.fs = RInt(fs) /\ c.duration = RInt(duration)

EvenLayout(c) ==
    /\ c.status = "ok"
    /\ Len(c.f) = FrequenciesOf(c) + 2
    /\ c.f[1] = RZero
    /\ Last(c.f) = RMul(c.fs, <<1, 2>>)
    /\ Len(c.white_noise) = Len(c.f)
    /\ c.white_noise[1] = CZero
    /\ Last(c.white_noise) = CZero

\* C1 as stated: for positive arguments with an even number_of_samples the
\* call returns the frequency array of length number_of_frequencies + 2 from 0
\* to sampling_frequency / 2 and a noise array of that length with zero ends;
\* create_white_noise(256, 64) has 16384 samples and last frequency 128.
C1_EverySampleCount ==
    Called /\ Positive(o.fs) /\ Positive(o.duration) /\ SamplesOf(o) % 2 = 0
        => /\ EvenLayout(o)
           /\ Is(o, 256, 64) => SamplesOf(o) = 16384 /\ Last(o.f) = RInt(128)

\* C1 amended: the same for an even number_of_samples of at least 2 (with 0
\* samples, which positive arguments of product at most 1/2 give, the call
\* raises instead).
C1_EvenSamples ==
    Called /\ Positive(o.fs) /\ Positive(o.duration)
           /\ SamplesOf(o) % 2 = 0 /\ SamplesOf(o) >= 2
        => /\ EvenLayout(o)
           /\ Is(o, 256, 64) => SamplesOf(o) = 16384 /\ Last(o.f) = RInt(128)

C1_Witness ==
    /\ Is(o, 256, 64) /\ o.status = "ok" /\ seeded
    /\ Len(o.f) = 8193 /\ Len(o.white_noise) = 8193

C3_OddExample ==
    Called /\ Is(o, 255, 64)
        => /\ SamplesOf(o) % 2 = 1
           /\ o.status = "ok"
           /\ Len(o.f) = FrequenciesOf(o) + 1
           /\ Len(o.white_noise) = FrequenciesOf(o) + 1
           /\ o.f[1] = RZero /\ o.white_noise[1] = CZero
           /\ Last(o.f) = RMul(RInt(FrequenciesOf(o)), DeltaOf(o))

\* C3 amended: create_white_noise(255, 64) has the even number_of_samples
\* 16320 = 255 * 64, so its arrays have length number_of_frequencies + 2 =
\* 8161, start with 0 and end with the Nyquist element: frequency 255/2 and
\* noise 0.
C3_EvenExample ==
    Called /\ Is(o, 255, 64)
        => /\ SamplesOf(o) = 16320
           /\ FrequenciesOf(o) = 8159
           /\ o.status = "ok"
           /\ Len(o.f) = 8161
           /\ Len(o.white_noise) = 8161
           /\ o.f[1] = RZero /\ o.white_noise[1] = CZero
           /\ Last(o.f) = <<255, 2>> /\ Last(o.white_noise) = CZero

C3_Witness == Is(o, 255, 64) /\ o.status = "ok" /\ calls = 2

\* The last call of a function that draws nothing, in ret.
TimeSeriesOf(c) == c.args[1]

C5_NeverRaises == Called => o.status = "ok"

\* C5 amended: create_white_noise checks nothing itself, but the call raises,
\* and returns no arrays, whenever duration or sampling_frequency is zero or
\* negative, and also when number_of_samples is 0; it returns exactly when
\* duration is positive and number_of_samples is at least 1.
C5_RaisesWhenDegenerate ==
    Called =>
        /\ o.status = "ok" <=> (Positive(o.duration) /\ SamplesOf(o) >= 1)
        /\ ~Positive(o.duration) \/ ~Positive(o.fs) => o.status = "raise"
        /\ o.status = "raise" => o.white_noise = <<>> /\ o.f = <<>> /\ o.after = o.before
        /\ o.status \in {"ok", "raise"}

C5_Witness ==
    /\ o.status = "raise" /\ o.error = "TypeError"
    /\ ~Positive(o.fs) /\ ~Positive(o.duration) /\ SamplesOf(o) = 5

\* C6: ra_dec_to_theta_phi always returns the pair (theta, phi), in that order,
\* with theta = pi/2 - dec and phi = ra - gmst, nothing wrapped or rejected;
\* ra = dec = gmst = 0 gives (pi/2, 0).
C6_ThetaPhi ==
    ret.op = "ra_dec_to_theta_phi"
        => LET ra   == ret.args[1]
               dec  == ret.args[2]
               gmst == ret.args[3]
               zero == [rat |-> RZero, pi |-> RZero]
           IN  /\ ret.status = "ok"
               /\ Len(ret.value) = 2
               /\ ret.value[1].rat = RSub(RZero, dec.rat)
               /\ ret.value[1].pi = RSub(<<1, 2>>, dec.pi)
               /\ RAdd(ret.value[2].rat, gmst.rat) = ra.rat
               /\ RAdd(ret.value[2].pi, gmst.pi) = ra.pi
               /\ ra = zero /\ dec = zero /\ gmst = zero
                    => ret.value = <<[rat |-> RZero, pi |-> <<1, 2>>], zero>>

C6_Witness ==
    /\ ret.op = "ra_dec_to_theta_phi"
    /\ ret.args[1] = [rat |-> RZero, pi |-> RZero]
    /\ ret.args[3] = [rat |-> RInt(45), pi |-> RZero]
    /\ ret.value[2].rat = RInt(-45)

\* C7: once both runs have seeded the generator with the same seed, the k-th
\* create_white_noise call made since returns the same noise and frequency
\* arrays in both runs, for every k.
C7_Reproducible ==
    seeded /\ k >= 1
        => /\ out[1].status = out[2].status
           /\ out[1].white_noise = out[2].white_noise
           /\ out[1].norm1sq = out[2].norm1sq
           /\ out[1].f = out[2].f

C7_Witness ==
    /\ seeded /\ k = 2 /\ out[2].status = "ok" /\ Len(out[2].white_noise) >= 3
    /\ \E i \in 1..Len(out[2].white_noise) : out[2].white_noise[i] # CZero
    /\ ret.op = "sampling_frequency"

\* C8 as stated: for positive arguments both arrays have the same length,
\* floor(number_of_samples / 2) + 1.
C8_EveryLength ==
    Called /\ Positive(o.fs) /\ Positive(o.duration)
        => /\ o.status = "ok"
           /\ Len(o.white_noise) = Len(o.f)
           /\ Len(o.f) = (SamplesOf(o) \div 2) + 1

\* C8 amended: the same for positive arguments that give at least 1 sample.
C8_Length ==
    Called /\ Positive(o.fs) /\ Positive(o.duration) /\ SamplesOf(o) >= 1
        => /\ o.status = "ok"
           /\ Len(o.white_noise) = Len(o.f)
           /\ Len(o.f) = (SamplesOf(o) \div 2) + 1

C8_Witness ==
    /\ o.status = "ok" /\ SamplesOf(o) = 9 /\ Len(o.f) = 5 /\ calls = 2

\* A step of create_white_noise, and a step of a function that draws nothing.
NoiseStep == calls' # calls
QuietStep == ret'.op \in {"sampling_frequency", "ra_dec_to_theta_phi", "gps_time_to_gmst"}
DrawnInOrder(c) ==
    \A i \in 1..FrequenciesOf(c) :
        c.white_noise[i + 1] =
            <<Gauss(c.before.key, c.before.pos + i),
              Gauss(c.before.key, c.before.pos + FrequenciesOf(c) + i)>>

\* C9 as stated: every create_white_noise call advances the generator by
\* exactly 2 * number_of_frequencies draws, real parts first, and changes
\* nothing else; the other three functions leave the generator alone.
C9_EveryCallDraws ==
    [][/\ NoiseStep =>
            /\ \A r \in Runs :
                 /\ out'[r].before = rng[r]
                 /\ rng'[r] = [rng[r] EXCEPT !.pos = @ + 2 * FrequenciesOf(out'[r])]
            /\ UNCHANGED seeded
       /\ QuietStep => UNCHANGED <<rng, out, seeded, calls, k>>]_vars

\* C9 amended: a create_white_noise call that returns advances the generator
\* by exactly 2 * number_of_frequencies draws, real parts first then imaginary
\* parts, and a call that raises leaves it as it was; neither changes anything
\* else, and the other three functions change neither the generator nor any
\* noise realization.
C9_ReturningCallDraws ==
    [][/\ NoiseStep =>
            /\ \A r \in Runs :
                 /\ out'[r].before = rng[r]
                 /\ out'[r].status = "ok" =>
                      /\ rng'[r] = [rng[r] EXCEPT !.pos = @ + 2 * FrequenciesOf(out'[r])]
                      /\ DrawnInOrder(out'[r])
                 /\ out'[r].status = "raise" => rng'[r] = rng[r]
                 /\ out'[r].status \in {"ok", "raise"}
            /\ UNCHANGED seeded
       /\ QuietStep => UNCHANGED <<rng, out, seeded, calls, k>>]_vars

C9_Witness ==
    /\ calls = 2 /\ out[1].status = "ok" /\ FrequenciesOf(out[1]) = 3
    /\ out[1].before.pos = 4 /\ rng[1].pos = 10
    /\ ret.op = "gps_time_to_gmst"

\* C10 as stated: for positive arguments the frequency array is strictly
\* increasing and its element at index k is k * delta_freq for every index,
\* the Nyquist element included.
C10_EveryBin ==
    Called /\ Positive(o.fs) /\ Positive(o.duration)
        => /\ o.status = "ok"
           /\ \A i \in 1..Len(o.f) : o.f[i] = RMul(RInt(i - 1), DeltaOf(o))
           /\ \A i \in 1..(Len(o.f) - 1) : RLt(o.f[i], o.f[i + 1])

\* C10 amended: for positive arguments that give at least 1 sample the
\* frequency array is strictly increasing and its element at index k is
\* k * delta_freq for every k up to number_of_frequencies; the Nyquist element
\* that follows when number_of_samples is even is sampling_frequency / 2,
\* which is the next multiple of delta_freq exactly when
\* duration * sampling_frequency is a whole number.
C10_Bins ==
    Called /\ Positive(o.fs) /\ Positive(o.duration) /\ SamplesOf(o) >= 1
        => LET nf == FrequenciesOf(o)
           IN  /\ o.status = "ok"
               /\ \A i \in 1..(nf + 1) : o.f[i] = RMul(RInt(i - 1), DeltaOf(o))
               /\ \A i \in 1..(Len(o.f) - 1) : RLt(o.f[i], o.f[i + 1])
               /\ SamplesOf(o) % 2 = 0 =>
                    /\ Len(o.f) = nf + 2
                    /\ Last(o.f) = RMul(o.fs, <<1, 2>>)
                    /\ Last(o.f) = RMul(RInt(nf + 1), DeltaOf(o))
                         <=> RMul(o.duration, o.fs) = RInt(SamplesOf(o))
               /\ SamplesOf(o) % 2 = 1 => Len(o.f) = nf + 1

C10_Witness ==
    /\ o.status = "ok" /\ SamplesOf(o) = 12 /\ RMul(o.duration, o.fs) = <<49, 4>>
    /\ Len(o.f) = 7 /\ Last(o.f) = <<7, 2>> /\ o.f[6] = <<20, 7>>
====
